---- MODULE Spec2Model ----
(***************************************************************************)
(* The movie-favorites backend: OAuth callback, session resolution and the *)
(* keyed operations on the users, profiles, favorites and sessions tables. *)
(*                                                                         *)
(* The source tree holds several revisions of the same server.  Two are    *)
(* modelled here, selected by the variable rev, which never changes:       *)
(*                                                                         *)
(*   "pg"      src/index.js: SQL queries through pg, cookie session of     *)
(*             express-session + passport.  Its handlers read              *)
(*             req.user._json and req.user.emails[0].value, so the         *)
(*             identity passport hands them is the provider profile.       *)
(*   "bearer"  src/unnamed/part_001 with src/config/passportConfig.js:     *)
(*             supabase client, the custom middleware that resolves the    *)
(*             Authorization token through the sessions table, and a       *)
(*             verify callback that upserts the users row and hands it     *)
(*             over as req.user ({id, email, name}).                       *)
(*                                                                         *)
(* Every await on the store is one step of a request, so that requests in  *)
(* flight interleave at exactly the points where the code suspends.  A     *)
(* store call may fail (fault); a supabase .single() additionally yields   *)
(* an error whenever the number of matching rows is not one.  The supabase *)
(* calls return the affected rows in data, as the handlers expect.         *)
(*                                                                         *)
(* The specifications run the same actions.  One client that waits for    *)
(* each answer: SpecSeq over every route; SpecAuthSeq on the                *)
(* authentication routes; SpecListSeq on the callback, POST /profiles,     *)
(* POST /favorites and GET /favorites; SpecProfileSeq on the callback and  *)
(* the profile writes, sent with every credential; SpecRemoveSeq on the    *)
(* callback, POST /profiles, POST /favorites and DELETE /favorites.        *)
(* Requests in flight at once: SpecAuth over the authentication routes;    *)
(* SpecFavRace over the callback and POST /favorites; SpecRemoveRace with  *)
(* logins racing logins and DELETE /favorites racing DELETE /favorites.    *)
(***************************************************************************)
EXTENDS Integers, FiniteSets, Bags, TLC

\* ---------------------------------------------------------------- bounds
MaxTime == 1
MaxUsers == 2
MaxProfiles == 1
MaxFavorites == 2

\* ---------------------------------------------------------------- inputs
Revisions == {"pg", "bearer"}
Slots == {1, 2}
Emails == {"a@x", "b@x"}
Names == {"Ann", "Anna"}
Cookies == {"c1"}
Tokens == {"t1"}
ProfileNames == {"Guest", "Kids"}
MovieIds == {42}
MovieDetails == {[movie_poster |-> "p1", movie_title |-> "T1", movie_year |-> "2001"]}

\* profile.id of the provider account that owns an email
GoogleId(e) == IF e = "a@x" THEN 101 ELSE 102

\* profile.displayName of that account: the owner of a@x renames the
\* account between two logins.
NamesOf(e) == IF e = "a@x" THEN Names ELSE {"Ann"}

VARIABLES
  rev,          \* the revision of the server that is deployed
  now,          \* the clock read by new Date()
  users,        \* table users: set of [id, email, name]
  profiles,     \* table profiles: set of [profile_id, user_id, profile_name]
  profileSeq,   \* the last value of the serial profile_id
  favorites,    \* table favorites: bag of rows (no key of its own)
  sessions,     \* table sessions: set of [token, user_id, expires_at]
  session,      \* express-session store: cookie -> passport login
  pc,           \* per request slot: where the request is suspended
  req,          \* per request slot: the request
  user,         \* per request slot: req.user
  userId,       \* per request slot: userId / sessionData.user_id local
  last,         \* the response (and log line) sent since the last arrival
  prior,        \* per request slot: what the same request was answered
                \* right before this one arrived with nothing else in
                \* flight ("" if it was not)
  revoked       \* credentials whose logout answered 200 with no
                \* authentication since

vars == <<rev, now, users, profiles, profileSeq, favorites, sessions, session,
          pc, req, user, userId, last, prior, revoked>>
tables == <<users, profiles, profileSeq, favorites, sessions>>

\* ------------------------------------------------------------ identities
NoUser == [kind |-> "null", id |-> 0, email |-> "", name |-> ""]
ProviderProfile(e, n) ==
  [kind |-> "profile", id |-> GoogleId(e), email |-> e, name |-> n]
UserRow(u) == [kind |-> "row", id |-> u.id, email |-> u.email, name |-> u.name]

isAuthenticated(u) == u # NoUser

NullReq ==
  [route |-> "", cookie |-> "", token |-> "", email |-> "", name |-> "",
   profile_id |-> 0, movie_id |-> 0, user_id |-> 0, profile_name |-> "",
   movie_poster |-> "", movie_title |-> "", movie_year |-> ""]

NoResponse ==
  [req |-> NullReq, status |-> 0, body |-> "", email |-> "", rows |-> {},
   fault |-> FALSE, prior |-> ""]

\* The credentials a client may present: none, the session cookie, or a
\* bearer token in the Authorization header (which the pg revision never
\* reads).
Credentials(rv) ==
  {[cookie |-> "", token |-> ""]}
    \cup {[cookie |-> c, token |-> ""] : c \in Cookies}
    \cup {[cookie |-> "", token |-> t] : t \in IF rv = "pg" THEN {} ELSE Tokens}

\* The profile_name of an update; the body-keyed PUT of the pg revision
\* may also come without one.
UpdateNames(rv) == IF rv = "pg" THEN {"", "Kids"} ELSE {"Kids"}

UserIdInputs(rv) ==
  IF rv = "pg" THEN 1..MaxUsers ELSE {GoogleId(e) : e \in Emails}

AllRequests(rv) ==
       UNION {{[NullReq EXCEPT !.route = "callback", !.cookie = c, !.email = e,
                                 !.name = n]
                  : c \in Cookies, n \in NamesOf(e)} : e \in Emails}
  \cup {[NullReq EXCEPT !.route = "status", !.cookie = k.cookie, !.token = k.token]
          : k \in Credentials(rv)}
  \cup {[NullReq EXCEPT !.route = "logout", !.cookie = k.cookie, !.token = k.token]
          : k \in Credentials(rv)}
  \cup {[NullReq EXCEPT !.route = "addFavorite", !.email = e, !.profile_id = p,
                        !.movie_id = m, !.movie_poster = d.movie_poster,
                        !.movie_title = d.movie_title, !.movie_year = d.movie_year]
          : e \in Emails \cup {""}, p \in 0..MaxProfiles, m \in MovieIds,
            d \in MovieDetails}
  \cup {[NullReq EXCEPT !.route = "removeFavorite", !.cookie = k.cookie,
                        !.token = k.token, !.profile_id = p, !.movie_id = m]
          : k \in Credentials(rv), p \in 1..MaxProfiles, m \in MovieIds}
  \cup {[NullReq EXCEPT !.route = "addProfile", !.user_id = u, !.profile_name = pn]
          : u \in UserIdInputs(rv), pn \in ProfileNames}
  \cup {[NullReq EXCEPT !.route = "getFavorites", !.profile_id = p]
          : p \in 0..MaxProfiles}
  \cup {[NullReq EXCEPT !.route = "getUser", !.email = e] : e \in Emails}
  \cup {[NullReq EXCEPT !.route = "getProfiles", !.cookie = k.cookie,
                        !.token = k.token]
          : k \in Credentials(rv)}
  \cup {[NullReq EXCEPT !.route = "updateProfile", !.profile_id = p,
                        !.profile_name = pn]
          : p \in 0..MaxProfiles, pn \in UpdateNames(rv)}
  \cup {[NullReq EXCEPT !.route = "deleteProfile", !.profile_id = p]
          : p \in 1..MaxProfiles}

\* The requests on some routes, with and without the logins under the
\* account's new display name.
RequestsRenamed(rv, routes) == {rq \in AllRequests(rv) : rq.route \in routes}
Requests(rv, routes) ==
  {rq \in RequestsRenamed(rv, routes) : rq.name \in {"", "Ann"}}

Credential(rq) == [cookie |-> rq.cookie, token |-> rq.token]

\* The same requests, each sent with every credential a client may hold.
WithCredentials(rv, rqs) ==
  {[rq EXCEPT !.cookie = k.cookie, !.token = k.token]
     : rq \in rqs, k \in Credentials(rv)}

\* ------------------------------------------------------------------ Init
\* No route of the server writes the sessions table: its rows are issued
\* elsewhere, and the server starts with any of them present.  A row
\* expires right after the start or at the end of the modelled time; two
\* rows of one token make its .single() lookup fail, and with no row the
\* token is unknown.
IssuedTokens == {"t1"}
ExpiryTimes == {0, MaxTime}
SessionRows ==
  [token : IssuedTokens, user_id : {GoogleId("a@x")}, expires_at : ExpiryTimes]

Init ==
  /\ rev \in Revisions
  /\ now = 0
  /\ users = {}
  /\ profiles = {}
  /\ profileSeq = 0
  /\ favorites = EmptyBag
  /\ sessions \in IF rev = "bearer"
                  THEN SUBSET SessionRows
                  ELSE {{}}
  /\ session = [c \in Cookies |-> NoUser]
  /\ pc = [r \in Slots |-> "idle"]
  /\ req = [r \in Slots |-> NullReq]
  /\ user = [r \in Slots |-> NoUser]
  /\ userId = [r \in Slots |-> 0]
  /\ last = NoResponse
  /\ prior = [r \in Slots |-> ""]
  /\ revoked = {}

\* ------------------------------------------------------- common helpers
\* The request answers: the response is recorded and the slot is free again.
RespondRows(r, status, body, email, rows, fault) ==
  /\ last' = [req |-> req[r], status |-> status, body |-> body,
              email |-> email, rows |-> rows, fault |-> fault,
              prior |-> prior[r]]
  /\ prior' = [prior EXCEPT ![r] = ""]
  /\ pc' = [pc EXCEPT ![r] = "idle"]
  /\ req' = [req EXCEPT ![r] = NullReq]
  /\ user' = [user EXCEPT ![r] = NoUser]
  /\ userId' = [userId EXCEPT ![r] = 0]

Respond(r, status, body, email, fault) ==
  RespondRows(r, status, body, email, {}, fault)

\* The request suspends on its next store call.
Goto(r, label, u, uid) ==
  /\ pc' = [pc EXCEPT ![r] = label]
  /\ user' = [user EXCEPT ![r] = u]
  /\ userId' = [userId EXCEPT ![r] = uid]
  /\ UNCHANGED <<req, last, prior>>

\* The first label of each route's handler.
Entry(route) ==
  CASE route = "callback" -> "cbAuth"
    [] route = "status" -> "status"
    [] route = "logout" -> "logout"
    [] route = "addFavorite" -> "favUser"
    [] route = "removeFavorite" -> "delUser"
    [] route = "addProfile" -> "profInsert"
    [] route = "getFavorites" -> "listProfile"
    [] route = "getUser" -> "getUser"
    [] route = "getProfiles" -> "profsUser"
    [] route = "updateProfile" -> "profUpdate"
    [] route = "deleteProfile" -> "profDelete"

\* The outcomes of a store call: a write succeeds only while the table has
\* room under the model's bound; any call may fail.
Outcomes(room) == IF room THEN BOOLEAN ELSE {FALSE}

\* req.user.emails[0].value and req.user._json exist on the provider
\* profile only; on a users row they throw a TypeError.
HasEmails(u) == u.kind = "profile"

\* req.user.profile_name: neither the provider profile nor the users row
\* ({id, email, name}) carries such a field, so it reads undefined.
UserProfileName(u) == ""

UsersByEmail(e) == {u \in users : u.email = e}
UsersById(i) == {u \in users : u.id = i}

\* The id a plain INSERT INTO users gives the new row (serial).
NewUserId ==
  IF users = {} THEN 1
  ELSE 1 + (CHOOSE i \in {u.id : u \in users} : \A u \in users : u.id <= i)
NewProfileId == profileSeq + 1

\* ------------------------------------------------------------- arrival
AllIdle == \A r \in Slots : pc[r] = "idle"

\* A request takes the first free slot.
Receive(r, rq) ==
  /\ pc[r] = "idle"
  /\ \A q \in Slots : q < r => pc[q] # "idle"
  /\ pc' = [pc EXCEPT ![r] = "mw"]
  /\ req' = [req EXCEPT ![r] = rq]
  /\ prior' = [prior EXCEPT
                 ![r] = IF AllIdle /\ last.req = rq /\ ~last.fault
                        THEN last.body ELSE ""]
  /\ last' = NoResponse
  /\ UNCHANGED <<rev, now, tables, session, user, userId, revoked>>

\* ------------------------------------------- identity of the request
\* passport.session() of the cookie revisions: the login kept in the
\* session store under the request's cookie.
DeserializeUser(cookie) == IF cookie = "" THEN NoUser ELSE session[cookie]

\* A variant that forgets the comparison with the clock.
SessionUsableIgnoringExpiry(rows, t) == Cardinality(rows) = 1

\* part_001:61-65: the token's row is usable when .single() found exactly
\* one and new Date(expires_at) < new Date() is false.
SessionUsable(rows, t) ==
  /\ Cardinality(rows) = 1
  /\ \A s \in rows : ~(s.expires_at < t)

\* part_001:68-78: .single() on users by id.
ResolveUser(rows) ==
  IF Cardinality(rows) = 1 THEN UserRow(CHOOSE u \in rows : TRUE) ELSE NoUser

SessionMiddleware(r) ==
  /\ pc[r] = "mw"
  /\ UNCHANGED <<rev, now, tables, session, revoked>>
  /\ IF rev = "pg"
     THEN Goto(r, Entry(req[r].route), DeserializeUser(req[r].cookie), 0)
     ELSE IF req[r].token = ""
     THEN Goto(r, Entry(req[r].route), NoUser, 0)
     ELSE \E ok \in BOOLEAN :
            LET rows == {s \in sessions : s.token = req[r].token} IN
            IF ok /\ SessionUsable(rows, now)
            THEN Goto(r, "mwUser", NoUser, (CHOOSE s \in rows : TRUE).user_id)
            ELSE Goto(r, Entry(req[r].route), NoUser, 0)

SessionUserLookup(r) ==
  /\ pc[r] = "mwUser"
  /\ UNCHANGED <<rev, now, tables, session, revoked>>
  /\ \E ok \in BOOLEAN :
       Goto(r, Entry(req[r].route),
            IF ok THEN ResolveUser(UsersById(userId[r])) ELSE NoUser, 0)

\* ------------------------------------------------ GET /auth/google/callback
\* A variant that writes the row over the whole table.
UpsertAlone(rows, row) == {row}

\* passportConfig.js:75-79: upsert keyed by id.
Upsert(rows, row) == {u \in rows : u.id # row.id} \cup {row}

\* passportConfig.js:89-91
SerializeUser(u) == [kind |-> "id", id |-> u.id, email |-> "", name |-> ""]

\* A variant that takes a row of the table whatever the id.
deserializeUserAnyRow(id) ==
  IF users = {} THEN NoUser ELSE UserRow(CHOOSE u \in users : TRUE)

\* passportConfig.js:93-107: .single() on users by the id kept in the
\* session; an error hands no user over.
deserializeUser(id) == ResolveUser(UsersById(id))

\* passport.authenticate("google"): the provider grants or denies; the
\* bearer revision's verify callback upserts the users row; req.logIn
\* stores the login in the cookie session.
CallbackAuthenticate(r) ==
  /\ pc[r] = "cbAuth"
  /\ UNCHANGED <<rev, now, profiles, profileSeq, favorites, sessions>>
  /\ \E granted \in BOOLEAN :
       IF ~granted
       THEN /\ Respond(r, 302, "failureRedirect", "", FALSE)
            /\ UNCHANGED <<users, session, revoked>>
       ELSE IF rev = "pg"
       THEN LET p == ProviderProfile(req[r].email, req[r].name) IN
            /\ session' = [session EXCEPT ![req[r].cookie] = p]
            /\ revoked' = {}
            /\ Goto(r, "cbSelect", p, 0)
            /\ UNCHANGED users
       ELSE LET row == [id |-> GoogleId(req[r].email), email |-> req[r].email,
                        name |-> req[r].name] IN
            \E ok \in Outcomes(Cardinality(Upsert(users, row)) <= MaxUsers) :
              IF ok
              THEN /\ users' = Upsert(users, row)
                   /\ session' = [session EXCEPT
                                    ![req[r].cookie] = SerializeUser(UserRow(row))]
                   /\ revoked' = {}
                   /\ Goto(r, "cbSelect", UserRow(row), 0)
              ELSE /\ Respond(r, 500, "error", "", TRUE)
                   /\ UNCHANGED <<users, session, revoked>>

\* A failed store call of the callback: the pg revision logs it and
\* redirects all the same, the bearer revision answers 500.
CallbackFailure(r) ==
  IF rev = "pg"
  THEN Respond(r, 302, "Error adding user to database", "", TRUE)
  ELSE Respond(r, 500, "Internal Server Error", "", TRUE)

\* A variant that inserts whatever the lookup found.
NeedsInsertAlways(rows) == TRUE

\* index.js:70, part_001:116: the lookup by email found no row.
NeedsInsert(rows) == rows = {}

CallbackSelect(r) ==
  /\ pc[r] = "cbSelect"
  /\ UNCHANGED <<rev, now, tables, session, revoked>>
  /\ \E ok \in BOOLEAN :
       IF ~ok THEN CallbackFailure(r)
       ELSE IF NeedsInsert(UsersByEmail(user[r].email))
       THEN Goto(r, "cbInsert", user[r], 0)
       ELSE Respond(r, 302, "User already exists", "", FALSE)

CallbackInsert(r) ==
  /\ pc[r] = "cbInsert"
  /\ UNCHANGED <<rev, now, profiles, profileSeq, favorites, sessions, session, revoked>>
  /\ \E ok \in Outcomes(Cardinality(users) < MaxUsers) :
       IF ~ok
       THEN CallbackFailure(r) /\ UNCHANGED users
       ELSE /\ users' = users \cup {[id |-> NewUserId, email |-> user[r].email,
                                     name |-> user[r].name]}
            /\ Respond(r, 302, "New user added", "", FALSE)

\* -------------------------------------------------------- GET /auth/status
\* The bearer revision evaluates the undeclared identifier isAuthenticated
\* (part_001:142) before anything else: a ReferenceError, answered 500.
StatusResponse(rv, u) ==
  IF rv = "bearer" THEN [status |-> 500, body |-> "error", email |-> ""]
  ELSE IF ~isAuthenticated(u)
  THEN [status |-> 200, body |-> "unauthenticated", email |-> ""]
  ELSE IF HasEmails(u)
  THEN [status |-> 200, body |-> "authenticated", email |-> u.email]
  ELSE [status |-> 500, body |-> "error", email |-> ""]

AuthStatus(r) ==
  /\ pc[r] = "status"
  /\ UNCHANGED <<rev, now, tables, session, revoked>>
  /\ LET a == StatusResponse(rev, user[r]) IN
     Respond(r, a.status, a.body, a.email, FALSE)

\* ------------------------------------------------------- POST /auth/logout
\* req.logout() removes the login from the cookie session; it touches no
\* table.
\* A variant that lets every caller through.
LogoutAllowedAlways(u) == TRUE

\* index.js:101, part_001:152
LogoutAllowed(u) == isAuthenticated(u)

AuthLogout(r) ==
  /\ pc[r] = "logout"
  /\ UNCHANGED <<rev, now, tables>>
  /\ IF ~LogoutAllowed(user[r])
     THEN /\ Respond(r, 403, "User not authenticated", "", FALSE)
          /\ UNCHANGED <<session, revoked>>
     ELSE /\ session' = [c \in Cookies |->
                           IF c = req[r].cookie THEN NoUser ELSE session[c]]
          /\ revoked' = revoked \cup {Credential(req[r])}
          /\ Respond(r, 200, "Logged out successfully", "", FALSE)

\* --------------------------------------------------------- POST /favorites
MissingFields(rq) == rq.email = "" \/ rq.profile_id = 0 \/ rq.movie_id = 0

\* A variant that matches the rows of every user.
FavoritesOfAnyUser(uid, p, m) ==
  [f \in {g \in DOMAIN favorites : g.profile_id = p /\ g.movie_id = m}
     |-> favorites[f]]

\* The rows of favorites for one (user_id, profile_id, movie_id), as a bag.
FavoritesOf(uid, p, m) ==
  [f \in {g \in DOMAIN favorites :
            g.user_id = uid /\ g.profile_id = p /\ g.movie_id = m}
     |-> favorites[f]]

FavoriteRow(uid, rq) ==
  [user_id |-> uid, profile_id |-> rq.profile_id, movie_id |-> rq.movie_id,
   movie_poster |-> rq.movie_poster, movie_title |-> rq.movie_title,
   movie_year |-> rq.movie_year]

\* Whether the users lookup by email yields a user to go on with: the pg
\* revision takes rows[0] of a non-empty result, the bearer revision's
\* .single() needs exactly one row.
UserFound(rv, rows) == IF rv = "pg" THEN rows # {} ELSE Cardinality(rows) = 1

\* Whether the existence check lets the insert go ahead: the pg revision
\* inserts when no row matches; in the bearer revision .single() reports an
\* error on an empty result, so the insert is never reached.
MayInsertFavorite(rv, n) == rv = "pg" /\ n = 0

AddFavoriteUser(r) ==
  /\ pc[r] = "favUser"
  /\ UNCHANGED <<rev, now, tables, session, revoked>>
  /\ IF MissingFields(req[r])
     THEN Respond(r, 400, "Email, profile_id, and movie_id are required", "", FALSE)
     ELSE \E ok \in BOOLEAN :
            LET rows == UsersByEmail(req[r].email) IN
            IF ~ok THEN Respond(r, 500, "Error adding favorite", "", TRUE)
            ELSE IF UserFound(rev, rows)
            THEN \E u \in rows : Goto(r, "favCheck", user[r], u.id)
            ELSE IF rev = "pg"
            THEN Respond(r, 404, "User not found", "", FALSE)
            ELSE Respond(r, 500, "Error adding favorite", "", FALSE)

AddFavoriteCheck(r) ==
  /\ pc[r] = "favCheck"
  /\ UNCHANGED <<rev, now, tables, session, revoked>>
  /\ \E ok \in BOOLEAN :
       LET n == BagCardinality(
                  FavoritesOf(userId[r], req[r].profile_id, req[r].movie_id)) IN
       IF ~ok THEN Respond(r, 500, "Error adding favorite", "", TRUE)
       ELSE IF MayInsertFavorite(rev, n)
       THEN Goto(r, "favInsert", user[r], userId[r])
       ELSE IF rev = "pg" \/ n = 1
       THEN Respond(r, 409, "This movie is already in favorites", "", FALSE)
       ELSE Respond(r, 500, "Error adding favorite", "", FALSE)

AddFavoriteInsert(r) ==
  /\ pc[r] = "favInsert"
  /\ UNCHANGED <<rev, now, users, profiles, profileSeq, sessions, session, revoked>>
  /\ \E ok \in Outcomes(BagCardinality(favorites) < MaxFavorites) :
       IF ~ok
       THEN /\ Respond(r, 500, "Error adding favorite", "", TRUE)
            /\ UNCHANGED favorites
       ELSE /\ favorites' = favorites (+) SetToBag({FavoriteRow(userId[r], req[r])})
            /\ Respond(r, 201, "created", "", FALSE)

\* ---------------------------------- DELETE /favorites/:movie_id/:profile_id
\* The guard of the handler: the caller's identity and its profile_name.
RemoveDenied(u, rq) == ~isAuthenticated(u) \/ UserProfileName(u) = "Guest"

RemoveFavoriteUser(r) ==
  /\ pc[r] = "delUser"
  /\ UNCHANGED <<rev, now, tables, session, revoked>>
  /\ IF RemoveDenied(user[r], req[r])
     THEN Respond(r, 403, "Guests cannot remove favorites.", "", FALSE)
     ELSE IF ~HasEmails(user[r])
     THEN Respond(r, 500, "Failed to remove favorite movie", "", FALSE)
     ELSE \E ok \in BOOLEAN :
            LET rows == UsersByEmail(user[r].email) IN
            IF ~ok THEN Respond(r, 500, "Failed to remove favorite movie", "", TRUE)
            ELSE IF UserFound(rev, rows)
            THEN \E u \in rows : Goto(r, "delDelete", user[r], u.id)
            ELSE IF rev = "pg"
            THEN Respond(r, 404, "User not found", "", FALSE)
            ELSE Respond(r, 500, "Failed to remove favorite movie", "", FALSE)

\* index.js:204, part_001:274: the delete affected no row.
NothingDeleted(gone) == BagCardinality(gone) = 0

RemoveFavoriteDelete(r) ==
  /\ pc[r] = "delDelete"
  /\ UNCHANGED <<rev, now, users, profiles, profileSeq, sessions, session, revoked>>
  /\ \E ok \in BOOLEAN :
       LET gone == FavoritesOf(userId[r], req[r].profile_id, req[r].movie_id) IN
       IF ~ok
       THEN /\ Respond(r, 500, "Failed to remove favorite movie", "", TRUE)
            /\ UNCHANGED favorites
       ELSE /\ favorites' = [f \in DOMAIN favorites \ DOMAIN gone |-> favorites[f]]
            /\ IF NothingDeleted(gone)
               THEN Respond(r, 404, "Favorite not found", "", FALSE)
               ELSE Respond(r, 200, "Movie removed from favorites", "", FALSE)

\* ----------------------------------------------------------- POST /profiles
AddProfile(r) ==
  /\ pc[r] = "profInsert"
  /\ UNCHANGED <<rev, now, users, favorites, sessions, session, revoked>>
  /\ \E ok \in Outcomes(profileSeq < MaxProfiles) :
       IF ~ok
       THEN /\ Respond(r, 500, "Failed to add profile", "", TRUE)
            /\ UNCHANGED <<profiles, profileSeq>>
       ELSE /\ profileSeq' = NewProfileId
            /\ profiles' = profiles \cup
                 {[profile_id |-> NewProfileId, user_id |-> req[r].user_id,
                   profile_name |-> req[r].profile_name]}
            /\ Respond(r, 201, "created", "", FALSE)

\* ------------------------------------------------ GET /favorites?profile_id=
\* The favorites rows of one profile of one user, each with its number of
\* copies.
FavoritesList(uid, p) ==
  {<<f, favorites[f]>> : f \in {g \in DOMAIN favorites :
                                  g.user_id = uid /\ g.profile_id = p}}

\* A variant that never takes a result for empty.
NoFavoritesNever(list) == FALSE

\* index.js:242, part_001:318: result.rows.length === 0
NoFavorites(list) == list = {}

\* Whether the profiles lookup yields an owner to go on with: rows[0] of a
\* non-empty result in the pg revision, exactly one row for .single().
ProfileFound(rv, rows) == IF rv = "pg" THEN rows # {} ELSE Cardinality(rows) = 1

GetFavoritesProfile(r) ==
  /\ pc[r] = "listProfile"
  /\ UNCHANGED <<rev, now, tables, session, revoked>>
  /\ IF req[r].profile_id = 0
     THEN Respond(r, 400, "Profile ID is required", "", FALSE)
     ELSE \E ok \in BOOLEAN :
            LET rows == {q \in profiles : q.profile_id = req[r].profile_id} IN
            IF ~ok THEN Respond(r, 500, "Error fetching favorites", "", TRUE)
            ELSE IF ProfileFound(rev, rows)
            THEN \E q \in rows : Goto(r, "listFavs", user[r], q.user_id)
            ELSE IF rev = "pg"
            THEN Respond(r, 404, "No user found for this profile", "", FALSE)
            ELSE Respond(r, 500, "Error fetching favorites", "", FALSE)

GetFavoritesList(r) ==
  /\ pc[r] = "listFavs"
  /\ UNCHANGED <<rev, now, tables, session, revoked>>
  /\ \E ok \in BOOLEAN :
       LET list == FavoritesList(userId[r], req[r].profile_id) IN
       IF ~ok THEN Respond(r, 500, "Error fetching favorites", "", TRUE)
       ELSE IF NoFavorites(list)
       THEN Respond(r, 404, "No favorites found for this profile", "", FALSE)
       ELSE RespondRows(r, 200, "favorites", "", list, FALSE)

\* ------------------------------------------------------- GET /users?email=
GetUser(r) ==
  /\ pc[r] = "getUser"
  /\ UNCHANGED <<rev, now, tables, session, revoked>>
  /\ \E ok \in BOOLEAN :
       LET rows == UsersByEmail(req[r].email) IN
       IF ~ok THEN Respond(r, 500, "Internal server error", "", TRUE)
       ELSE IF UserFound(rev, rows)
       THEN \E u \in rows : RespondRows(r, 200, "user", "", {u.id}, FALSE)
       ELSE IF rev = "pg"
       THEN Respond(r, 404, "User not found", "", FALSE)
       ELSE Respond(r, 500, "Internal server error", "", FALSE)

\* ------------------------------------------------------------ GET /profiles
ProfilesOf(uid) == {q \in profiles : q.user_id = uid}

\* index.js:298, part_001:384
ProfilesDenied(u) == ~isAuthenticated(u)

\* The pg revision first looks the caller's users row up by email; the
\* bearer revision selects the profiles by req.user.id at once.
GetProfilesUser(r) ==
  /\ pc[r] = "profsUser"
  /\ UNCHANGED <<rev, now, tables, session, revoked>>
  /\ IF ProfilesDenied(user[r])
     THEN Respond(r, 403, "User not authenticated", "", FALSE)
     ELSE \E ok \in BOOLEAN :
            IF rev = "pg"
            THEN LET rows == UsersByEmail(user[r].email) IN
                 IF ~ok THEN Respond(r, 500, "Internal server error", "", TRUE)
                 ELSE IF rows = {}
                 THEN Respond(r, 404, "User not found", "", FALSE)
                 ELSE \E u \in rows : Goto(r, "profsList", user[r], u.id)
            ELSE IF ~ok THEN Respond(r, 500, "Error fetching profiles", "", TRUE)
                 ELSE RespondRows(r, 200, "profiles", "",
                                  ProfilesOf(user[r].id), FALSE)

GetProfilesList(r) ==
  /\ pc[r] = "profsList"
  /\ UNCHANGED <<rev, now, tables, session, revoked>>
  /\ \E ok \in BOOLEAN :
       IF ~ok THEN Respond(r, 500, "Internal server error", "", TRUE)
       ELSE RespondRows(r, 200, "profiles", "", ProfilesOf(userId[r]), FALSE)

\* ------------------------------------------- PUT /profiles, DELETE /profiles
\* A variant that matches only the profiles of the caller.
ProfilesByIdOfCaller(p) ==
  {q \in profiles :
     /\ q.profile_id = p
     /\ \E r \in Slots :
          /\ pc[r] \in {"profUpdate", "profDelete"}
          /\ \E u \in UsersByEmail(user[r].email) : u.id = q.user_id}

ProfilesById(p) == {q \in profiles : q.profile_id = p}

\* What a keyed write that affected the rows hit answers: the pg revision
\* maps rowCount === 0 to 404; in the bearer revision .single() makes of
\* every result that is not exactly one row an error, answered 500.
KeyedWriteStatus(rv, hit) ==
  IF Cardinality(hit) = 1 THEN 200
  ELSE IF rv = "pg" THEN (IF hit = {} THEN 404 ELSE 200)
  ELSE 500

\* index.js:352: !profile_id || !profile_name (the bearer revision keys
\* the update by the path and validates nothing).
UpdateRejected(rv, rq) ==
  rv = "pg" /\ (rq.profile_id = 0 \/ rq.profile_name = "")

UpdateProfile(r) ==
  /\ pc[r] = "profUpdate"
  /\ UNCHANGED <<rev, now, users, profileSeq, favorites, sessions, session, revoked>>
  /\ IF UpdateRejected(rev, req[r])
     THEN /\ Respond(r, 400, "Profile ID and name are required.", "", FALSE)
          /\ UNCHANGED profiles
     ELSE \E ok \in BOOLEAN :
            LET hit == ProfilesById(req[r].profile_id) IN
            IF ~ok
            THEN /\ Respond(r, 500, "Failed to update profile", "", TRUE)
                 /\ UNCHANGED profiles
            ELSE /\ profiles' = (profiles \ hit) \cup
                      {[q EXCEPT !.profile_name = req[r].profile_name] : q \in hit}
                 /\ Respond(r, KeyedWriteStatus(rev, hit), "update", "", FALSE)

DeleteProfile(r) ==
  /\ pc[r] = "profDelete"
  /\ UNCHANGED <<rev, now, users, profileSeq, favorites, sessions, session, revoked>>
  /\ \E ok \in BOOLEAN :
       LET hit == ProfilesById(req[r].profile_id) IN
       IF ~ok
       THEN /\ Respond(r, 500, "Failed to delete profile", "", TRUE)
            /\ UNCHANGED profiles
       ELSE /\ profiles' = profiles \ hit
            /\ Respond(r, KeyedWriteStatus(rev, hit), "delete", "", FALSE)

\* ------------------------------------------------------------------ clock
\* Only the bearer revision reads the clock.
Tick ==
  /\ now < MaxTime
  /\ now' = now + 1
  /\ rev = "bearer"
  /\ UNCHANGED <<rev, tables, session, pc, req, user, userId, last, prior, revoked>>

\* ------------------------------------------------------- specifications
AllRoutes ==
  {"callback", "status", "logout", "addFavorite", "removeFavorite", "addProfile",
   "getFavorites", "getUser", "getProfiles", "updateProfile", "deleteProfile"}
AuthRoutes == {"callback", "status", "logout"}
FavRaceRoutes == {"callback", "addFavorite"}

\* One client that waits for each answer before it sends the next request.
NextSeq ==
  \/ \E r \in Slots : \E rq \in RequestsRenamed(rev, AllRoutes) :
       AllIdle /\ Receive(r, rq)
  \/ \E r \in Slots :
       \/ SessionMiddleware(r)
       \/ SessionUserLookup(r)
       \/ CallbackAuthenticate(r)
       \/ CallbackSelect(r)
       \/ CallbackInsert(r)
       \/ AuthStatus(r)
       \/ AuthLogout(r)
       \/ AddFavoriteUser(r)
       \/ AddFavoriteCheck(r)
       \/ AddFavoriteInsert(r)
       \/ RemoveFavoriteUser(r)
       \/ RemoveFavoriteDelete(r)
       \/ AddProfile(r)
       \/ GetFavoritesProfile(r)
       \/ GetFavoritesList(r)
       \/ GetUser(r)
       \/ GetProfilesUser(r)
       \/ GetProfilesList(r)
       \/ UpdateProfile(r)
       \/ DeleteProfile(r)
  \/ Tick

SpecSeq == Init /\ [][NextSeq]_vars

\* One client on the authentication routes.
NextAuthSeq ==
  \/ \E r \in Slots : \E rq \in RequestsRenamed(rev, AuthRoutes) :
       AllIdle /\ Receive(r, rq)
  \/ \E r \in Slots :
       \/ SessionMiddleware(r)
       \/ SessionUserLookup(r)
       \/ CallbackAuthenticate(r)
       \/ CallbackSelect(r)
       \/ CallbackInsert(r)
       \/ AuthStatus(r)
       \/ AuthLogout(r)
  \/ Tick

SpecAuthSeq == Init /\ [][NextAuthSeq]_vars

\* One client that logs in, creates profiles, adds favorites and lists
\* them.
ListRoutes == {"callback", "addProfile", "addFavorite", "getFavorites"}

NextListSeq ==
  \/ \E r \in Slots : \E rq \in Requests(rev, ListRoutes) :
       AllIdle /\ Receive(r, rq)
  \/ \E r \in Slots :
       \/ SessionMiddleware(r)
       \/ CallbackAuthenticate(r)
       \/ CallbackSelect(r)
       \/ CallbackInsert(r)
       \/ AddFavoriteUser(r)
       \/ AddFavoriteCheck(r)
       \/ AddFavoriteInsert(r)
       \/ AddProfile(r)
       \/ GetFavoritesProfile(r)
       \/ GetFavoritesList(r)

SpecListSeq == Init /\ [][NextListSeq]_vars

\* One client that logs in and creates, renames and deletes profiles,
\* presenting any credential or none.
ProfileRoutes == {"addProfile", "updateProfile", "deleteProfile"}

NextProfileSeq ==
  \/ \E r \in Slots :
       \E rq \in Requests(rev, {"callback"})
                  \cup WithCredentials(rev, Requests(rev, ProfileRoutes)) :
         AllIdle /\ Receive(r, rq)
  \/ \E r \in Slots :
       \/ SessionMiddleware(r)
       \/ SessionUserLookup(r)
       \/ CallbackAuthenticate(r)
       \/ CallbackSelect(r)
       \/ CallbackInsert(r)
       \/ AddProfile(r)
       \/ UpdateProfile(r)
       \/ DeleteProfile(r)

SpecProfileSeq == Init /\ [][NextProfileSeq]_vars

\* One client that logs in, creates profiles, adds favorites and removes
\* them.  Every profile it creates is called "Guest".
RemoveRoutes == {"callback", "addProfile", "addFavorite", "removeFavorite"}

RemoveRequests(rv) ==
  {rq \in Requests(rv, RemoveRoutes) : rq.profile_name \in {"", "Guest"}}

NextRemoveSeq ==
  \/ \E r \in Slots : \E rq \in RemoveRequests(rev) :
       AllIdle /\ Receive(r, rq)
  \/ \E r \in Slots :
       \/ SessionMiddleware(r)
       \/ SessionUserLookup(r)
       \/ CallbackAuthenticate(r)
       \/ CallbackSelect(r)
       \/ CallbackInsert(r)
       \/ AddFavoriteUser(r)
       \/ AddFavoriteCheck(r)
       \/ AddFavoriteInsert(r)
       \/ RemoveFavoriteUser(r)
       \/ RemoveFavoriteDelete(r)
       \/ AddProfile(r)

SpecRemoveSeq == Init /\ [][NextRemoveSeq]_vars

\* New favorites come one at a time; a login arrives while other logins
\* are in flight, a DELETE /favorites while other DELETE /favorites are, and
\* the requests in flight interleave at their store calls.
RemoveRaceRoutes == {"callback", "addFavorite", "removeFavorite"}

OnlyInFlight(route) == \A q \in Slots : req[q].route \in {"", route}

NextRemoveRace ==
  \/ \E r \in Slots : \E rq \in Requests(rev, RemoveRaceRoutes) :
       /\ \/ AllIdle
          \/ rq.route \in {"callback", "removeFavorite"} /\ OnlyInFlight(rq.route)
       /\ Receive(r, rq)
  \/ \E r \in Slots :
       \/ SessionMiddleware(r)
       \/ SessionUserLookup(r)
       \/ CallbackAuthenticate(r)
       \/ CallbackSelect(r)
       \/ CallbackInsert(r)
       \/ AddFavoriteUser(r)
       \/ AddFavoriteCheck(r)
       \/ AddFavoriteInsert(r)
       \/ RemoveFavoriteUser(r)
       \/ RemoveFavoriteDelete(r)

SpecRemoveRace == Init /\ [][NextRemoveRace]_vars

\* Authentication requests arrive at any time and interleave at their
\* store calls.
NextAuth ==
  \/ \E r \in Slots : \E rq \in Requests(rev, AuthRoutes) : Receive(r, rq)
  \/ \E r \in Slots :
       \/ SessionMiddleware(r)
       \/ SessionUserLookup(r)
       \/ CallbackAuthenticate(r)
       \/ CallbackSelect(r)
       \/ CallbackInsert(r)
       \/ AuthStatus(r)
       \/ AuthLogout(r)
  \/ Tick

SpecAuth == Init /\ [][NextAuth]_vars

\* Callbacks and POST /favorites requests arrive at any time and interleave
\* at their store calls.
NextFavRace ==
  \/ \E r \in Slots : \E rq \in Requests(rev, FavRaceRoutes) : Receive(r, rq)
  \/ \E r \in Slots :
       \/ SessionMiddleware(r)
       \/ CallbackAuthenticate(r)
       \/ CallbackSelect(r)
       \/ CallbackInsert(r)
       \/ AddFavoriteUser(r)
       \/ AddFavoriteCheck(r)
       \/ AddFavoriteInsert(r)
  \/ Tick

SpecFavRace == Init /\ [][NextFavRace]_vars

\* ------------------------------------------------------------- properties
\* The lookup-then-insert of the callback ran to its end.
CallbackRan(body) == body \in {"New user added", "User already exists"}

\* C1: when the callback's lookup-then-insert has run to its end twice in
\* a row for the same identity and email, the second after the first had
\* answered, the users table holds exactly one row with that email.
C1_SequentialResolutionIdempotent ==
  (last.req.route = "callback" /\ CallbackRan(last.body) /\ CallbackRan(last.prior))
    => Cardinality(UsersByEmail(last.req.email)) = 1

C1_SecondResolutionFoundTheRow ==
  /\ last.req.route = "callback"
  /\ last.prior = "New user added"
  /\ last.body = "User already exists"

\* C2: in every reachable state the users table holds at most one row per
\* email, whatever the interleaving of the callbacks in flight.
C2_OneUserPerEmail == \A e \in Emails : Cardinality(UsersByEmail(e)) <= 1

\* C3: the second of two POST /favorites in a row with the same email,
\* profile_id and movie_id, for an existing user, answers 409 and the
\* favorites table holds exactly one row of that triple.
C3_SecondAddAnswersConflict ==
  (/\ last.req.route = "addFavorite"
   /\ ~MissingFields(last.req)
   /\ last.prior # ""
   /\ ~last.fault
   /\ UsersByEmail(last.req.email) # {})
    => /\ last.status = 409
       /\ \A u \in UsersByEmail(last.req.email) :
            BagCardinality(
              FavoritesOf(u.id, last.req.profile_id, last.req.movie_id)) = 1

\* C4: in every reachable state the favorites table holds at most one row
\* per (user_id, profile_id, movie_id), whatever the interleaving of the
\* POST /favorites requests in flight.
C4_OneFavoritePerTriple ==
  \A f \in DOMAIN favorites :
    BagCardinality(FavoritesOf(f.user_id, f.profile_id, f.movie_id)) <= 1

\* The caller of the DELETE in slot r owns the profile named in the path,
\* that profile is called "Guest", and the favorite to remove exists.
OwnsGuestFavorite(r) ==
  \E u \in UsersByEmail(user[r].email) : \E q \in profiles :
    /\ q.profile_id = req[r].profile_id
    /\ q.user_id = u.id
    /\ q.profile_name = "Guest"
    /\ BagCardinality(FavoritesOf(u.id, req[r].profile_id, req[r].movie_id)) > 0

\* C5: a DELETE /favorites whose acting profile is named "Guest" is
\* answered 403 and leaves the favorites table as it was, also when the
\* caller is authenticated as the profile's owner and the favorite exists.
C5_GuestRemoveDenied ==
  [][\A r \in Slots :
       (/\ pc[r] \in {"delUser", "delDelete"}
        /\ pc'[r] = "idle"
        /\ ~last'.fault
        /\ OwnsGuestFavorite(r))
         => (last'.status = 403 /\ favorites' = favorites)]_vars

C5_GuestFavoriteRemoved ==
  /\ last.req.route = "removeFavorite"
  /\ last.status = 200
  /\ \E q \in profiles :
       q.profile_id = last.req.profile_id /\ q.profile_name = "Guest"

\* The identity the middleware attaches to a request that presents
\* credential k in the current state, when no store call fails.
ResolvedIdentity(k) ==
  IF rev = "pg" THEN DeserializeUser(k.cookie)
  ELSE LET rows == {s \in sessions : s.token = k.token} IN
       IF k.token # "" /\ SessionUsable(rows, now)
       THEN ResolveUser(UsersById((CHOOSE s \in rows : TRUE).user_id))
       ELSE NoUser

\* C6: once the callback has completed successfully for a user there is a
\* credential on which GET /auth/status reports authenticated: true with
\* that user's email.
C6_CallbackEstablishesSession ==
  (last.req.route = "callback" /\ CallbackRan(last.body))
    => \E k \in Credentials(rev) :
         StatusResponse(rev, ResolvedIdentity(k)) =
           [status |-> 200, body |-> "authenticated", email |-> last.req.email]

\* C7: once POST /auth/logout has answered 200 for a credential, a later
\* request presenting it reaches its handler unauthenticated, until a new
\* authentication takes place.
C7_LogoutInvalidatesCredential ==
  \A r \in Slots :
    (pc[r] \notin {"idle", "mw", "mwUser"} /\ Credential(req[r]) \in revoked)
      => ~isAuthenticated(user[r])

\* C8: in the token middleware the request goes on to the users lookup
\* only with a sessions row of its token whose expires_at is not earlier
\* than the clock; it leaves the middleware with an identity only if that
\* identity is the users row of the session's user_id; and however it
\* leaves, it is handed to its route handler with nothing answered.
C8_TokenResolution ==
  [][\A r \in Slots :
       (rev = "bearer" /\ pc[r] \in {"mw", "mwUser"} /\ pc'[r] # pc[r])
         => /\ pc'[r] = "mwUser"
                 => /\ pc[r] = "mw"
                    /\ \E s \in sessions :
                         /\ s.token = req[r].token
                         /\ s.expires_at >= now
                         /\ s.user_id = userId'[r]
            /\ pc'[r] # "mwUser"
                 => /\ pc'[r] = Entry(req[r].route)
                    /\ req'[r] = req[r]
                    /\ last' = last
                    /\ isAuthenticated(user'[r])
                         => /\ pc[r] = "mwUser"
                            /\ \E s \in sessions :
                                 s.token = req[r].token /\ s.user_id = userId[r]
                            /\ \E u \in users :
                                 u.id = userId[r] /\ user'[r] = UserRow(u)]_vars

C8_IdentityFromToken ==
  \E r \in Slots :
    /\ rev = "bearer"
    /\ req[r].token # ""
    /\ pc[r] \notin {"idle", "mw", "mwUser"}
    /\ isAuthenticated(user[r])

\* C9: GET /auth/status always answers 200: authenticated: false without
\* a valid session, authenticated: true with the email otherwise.
C9_StatusNeverErrors ==
  last.req.route = "status"
    => /\ last.status = 200
       /\ last.body \in {"unauthenticated", "authenticated"}
       /\ last.body = "authenticated" => last.email # ""

\* C10: POST /auth/logout of a request without an identity answers 403
\* and leaves the users, profiles, favorites and sessions tables and every
\* session as they were.
C10_UnauthenticatedLogoutChangesNothing ==
  [][\A r \in Slots :
       (pc[r] = "logout" /\ ~isAuthenticated(user[r]) /\ pc'[r] = "idle")
         => /\ last'.status = 403
            /\ UNCHANGED <<users, profiles, favorites, sessions, session>>]_vars

C10_LogoutRefused ==
  /\ last.req.route = "logout"
  /\ last.status = 403
  /\ \E c \in Cookies : isAuthenticated(session[c])

\* The routes other than the authentication entry points and the OAuth
\* endpoints.
ProtectedRoutes == AllRoutes \ AuthRoutes

\* C11: a request without a resolved identity to a favorites, users or
\* profiles route is answered 403 by the first step of its handler, with
\* no store call made and no table changed.
C11_IdentityRequired ==
  [][\A r \in Slots :
       (/\ req[r].route \in ProtectedRoutes
        /\ pc[r] = Entry(req[r].route)
        /\ ~isAuthenticated(user[r])
        /\ pc'[r] # pc[r])
         => (pc'[r] = "idle" /\ last'.status = 403 /\ tables' = tables)]_vars

C11_AnonymousWrite ==
  /\ last.req.route \in {"addFavorite", "addProfile"}
  /\ Credential(last.req) = [cookie |-> "", token |-> ""]
  /\ last.status = 201


\* The POST /favorites in slot r carries all its fields, its email has a
\* users row and no favorites row exists for its triple.
NewFavoriteForKnownUser(r) ==
  /\ req[r].route = "addFavorite"
  /\ ~MissingFields(req[r])
  /\ UsersByEmail(req[r].email) # {}
  /\ \A u \in UsersByEmail(req[r].email) :
       BagCardinality(
         FavoritesOf(u.id, req[r].profile_id, req[r].movie_id)) = 0

\* C12: a POST /favorites with all fields, for an email with a users row
\* and a triple without a favorites row, answers 201 and adds exactly one
\* row for the triple, carrying the poster, title and year supplied.
C12_FavoriteCreated ==
  [][\A r \in Slots :
       (NewFavoriteForKnownUser(r) /\ pc'[r] = "idle" /\ ~last'.fault)
         => /\ last'.status = 201
            /\ \E u \in UsersByEmail(req[r].email) :
                 favorites' = favorites (+) SetToBag({FavoriteRow(u.id, req[r])})]_vars


\* C13: a POST /favorites with all fields for an email without a users
\* row answers 404, creates no users row and leaves favorites as it was.
C13_UnknownUserNotFound ==
  [][\A r \in Slots :
       (/\ req[r].route = "addFavorite"
        /\ ~MissingFields(req[r])
        /\ UsersByEmail(req[r].email) = {}
        /\ pc'[r] = "idle"
        /\ ~last'.fault)
         => (last'.status = 404 /\ users' = users /\ favorites' = favorites)]_vars


\* The DELETE in slot r comes from an authenticated caller, its profile is
\* not called "Guest" and the caller has no favorites row for the triple.
RemovesMissingFavorite(r) ==
  /\ req[r].route = "removeFavorite"
  /\ isAuthenticated(user[r])
  /\ \A q \in ProfilesById(req[r].profile_id) : q.profile_name # "Guest"
  /\ \A u \in UsersByEmail(user[r].email) :
       BagCardinality(
         FavoritesOf(u.id, req[r].profile_id, req[r].movie_id)) = 0

\* C14: a DELETE /favorites by an authenticated non-Guest caller for a
\* triple without a favorites row answers 404, never 500, and leaves the
\* favorites table as it was.
C14_MissingFavoriteNotFound ==
  [][\A r \in Slots :
       (RemovesMissingFavorite(r) /\ pc'[r] = "idle" /\ ~last'.fault)
         => (last'.status = 404 /\ favorites' = favorites)]_vars


\* C15: a GET /favorites for an existing profile whose owner has no
\* favorites row for it answers 404; a GET /favorites answers 200 only
\* with a list that is not empty.
C15_EmptyListNotFound ==
  [][\A r \in Slots :
       (req[r].route = "getFavorites" /\ pc'[r] = "idle" /\ ~last'.fault)
         => /\ (/\ ProfilesById(req[r].profile_id) # {}
                /\ \A q \in ProfilesById(req[r].profile_id) :
                     ~\E f \in DOMAIN favorites :
                        f.profile_id = q.profile_id /\ f.user_id = q.user_id)
                 => last'.status = 404
            /\ last'.status = 200
                 => /\ last'.rows # {}
                    /\ \A e \in last'.rows :
                         /\ e[1] \in DOMAIN favorites
                         /\ e[1].profile_id = req[r].profile_id]_vars

C15_ProfileWithoutFavorites ==
  /\ last.req.route = "getFavorites"
  /\ last.status = 404
  /\ ProfilesById(last.req.profile_id) # {}


\* C16: GET /profiles answers 403 with no store call when the request has
\* no identity; for a request authenticated as a user it answers 200 with
\* exactly the profiles rows whose user_id is that user's id.
C16_OwnProfilesListed ==
  [][\A r \in Slots :
       (req[r].route = "getProfiles" /\ pc'[r] = "idle" /\ ~last'.fault)
         => IF ~isAuthenticated(user[r])
            THEN /\ pc[r] = "profsUser"
                 /\ last'.status = 403
                 /\ tables' = tables
            ELSE /\ last'.status = 200
                 /\ \E u \in UsersByEmail(user[r].email) :
                      last'.rows = {q \in profiles : q.user_id = u.id}]_vars

C16_LoggedInWithoutUsersRow ==
  /\ last.req.route = "getProfiles"
  /\ last.status = 404
  /\ isAuthenticated(DeserializeUser(last.req.cookie))


\* C17: an update or a delete of a profile whose profile_id matches no
\* profiles row answers 404 and leaves the profiles table as it was.
C17_MissingProfileNotFound ==
  [][\A r \in Slots :
       (/\ req[r].route \in {"updateProfile", "deleteProfile"}
        /\ req[r].profile_id # 0
        /\ req[r].route = "updateProfile" => req[r].profile_name # ""
        /\ ProfilesById(req[r].profile_id) = {}
        /\ pc'[r] = "idle"
        /\ ~last'.fault)
         => (last'.status = 404 /\ profiles' = profiles)]_vars


\* C18: when the users lookup or the users insert of the callback handler
\* fails, the caller is redirected and is shown no error body.
C18_StorageErrorRedirects ==
  (/\ last.req.route = "callback"
   /\ last.fault
   /\ last.body \in {"Error adding user to database", "Internal Server Error"})
    => last.status = 302


\* C19: no step of an authentication for an email that already has a
\* users row changes that row: its id, email and name stay what they were,
\* whatever display name the provider reports.
C19_ExistingUserUnchanged ==
  [][\A r \in Slots :
       (req[r].route = "callback" /\ pc'[r] # pc[r])
         => \A u \in UsersByEmail(req[r].email) : u \in users']_vars


\* C20: no step of any request removes a users row: each row of one state
\* is there, under the same id and email, in the next.
C20_UsersNeverDeleted ==
  [][\A u \in users : \E v \in users' : v.id = u.id /\ v.email = u.email]_vars

C20_UsersSurviveDeletes ==
  /\ Cardinality(users) = 2
  /\ last.req.route \in {"deleteProfile", "removeFavorite", "logout"}
  /\ last.status = 200


NamedProfiles(rq) == {q \in profiles : q.profile_id = rq.profile_id}

\* What a profile request leaves in the profiles table when its store call
\* succeeds, told from the request's body and path and the table alone.
ProfilesAfter(rv, rq) ==
  CASE rq.route = "addProfile" ->
         profiles \cup {[profile_id |-> profileSeq + 1, user_id |-> rq.user_id,
                         profile_name |-> rq.profile_name]}
    [] rq.route = "updateProfile" ->
         IF UpdateRejected(rv, rq) THEN profiles
         ELSE (profiles \ NamedProfiles(rq))
                \cup {[q EXCEPT !.profile_name = rq.profile_name]
                        : q \in NamedProfiles(rq)}
    [] rq.route = "deleteProfile" -> profiles \ NamedProfiles(rq)

\* The status it answers with.
ProfileStatus(rv, rq) ==
  CASE rq.route = "addProfile" -> 201
    [] rq.route = "updateProfile" ->
         IF UpdateRejected(rv, rq) THEN 400
         ELSE KeyedWriteStatus(rv, NamedProfiles(rq))
    [] rq.route = "deleteProfile" -> KeyedWriteStatus(rv, NamedProfiles(rq))

\* C22: the answer of a create, update or delete profile request and the
\* profiles table it leaves are determined by the request's body and path
\* and the table, whoever sends it: no caller, the profile's owner or
\* another user.
C22_ProfileMutationIgnoresCaller ==
  [][\A r \in Slots :
       (req[r].route \in ProfileRoutes /\ pc'[r] = "idle" /\ ~last'.fault)
         => /\ profiles' = ProfilesAfter(rev, req[r])
            /\ last'.status = ProfileStatus(rev, req[r])]_vars

C22_RenamedByAnotherUser ==
  /\ last.req.route = "updateProfile"
  /\ last.status = 200
  /\ isAuthenticated(ResolvedIdentity(Credential(last.req)))
  /\ UsersByEmail(ResolvedIdentity(Credential(last.req)).email) # {}
  /\ \E q \in profiles :
       /\ q.profile_id = last.req.profile_id
       /\ \A u \in UsersByEmail(ResolvedIdentity(Credential(last.req)).email) :
            u.id # q.user_id


\* C23: once the callback has answered, every credential that resolves to
\* an identity with email e has a users row with email e, also when the
\* callback's users lookup or insert failed.
C23_LoggedInHasUsersRow ==
  AllIdle
    => \A k \in Credentials(rev) :
         isAuthenticated(ResolvedIdentity(k))
           => UsersByEmail(ResolvedIdentity(k).email) # {}

C23_LoggedInAfterFailedInsert ==
  /\ last.req.route = "callback"
  /\ last.fault
  /\ isAuthenticated(ResolvedIdentity(Credential(last.req)))
  /\ UsersByEmail(last.req.email) = {}


\* Whether a GET /favorites?profile_id=p handled in the current state with
\* no failing store call answers 200 with a list that holds a row for
\* movie m, whichever matching profiles row the owner lookup goes on with.
ListsMovie(p, m) ==
  /\ ProfileFound(rev, ProfilesById(p))
  /\ \A q \in ProfilesById(p) :
       \E e \in FavoritesList(q.user_id, p) : e[1].movie_id = m

\* C24: right after POST /favorites has answered 201 for (email,
\* profile_id p, movie_id m), GET /favorites?profile_id=p answers 200 with
\* a list that contains the row for m, for every p, whoever owns it.
C24_AddedFavoriteIsListed ==
  (last.req.route = "addFavorite" /\ last.status = 201)
    => ListsMovie(last.req.profile_id, last.req.movie_id)

C24_AddedUnderForeignProfile ==
  /\ last.req.route = "addFavorite"
  /\ last.status = 201
  /\ \E q \in ProfilesById(last.req.profile_id) :
       /\ \A u \in UsersByEmail(last.req.email) : u.id # q.user_id
       /\ UsersById(q.user_id) # {}
       /\ NoFavorites(FavoritesList(q.user_id, last.req.profile_id))


\* The number of copies of row f in a bag of rows.
Copies(bag, f) == IF f \in DOMAIN bag THEN bag[f] ELSE 0

\* C25: no step of a DELETE /favorites/:movie_id/:profile_id changes the
\* users or the profiles table or adds a favorites row, and the favorites
\* rows it removes have the movie_id and profile_id of the path and the
\* user_id of the users row of the authenticated caller, whatever the
\* request answers.
C25_RemoveTouchesOwnRowsOnly ==
  [][\A r \in Slots :
       (req[r].route = "removeFavorite" /\ pc'[r] # pc[r])
         => /\ users' = users
            /\ profiles' = profiles
            /\ DOMAIN favorites' \subseteq DOMAIN favorites
            /\ \A f \in DOMAIN favorites :
                 Copies(favorites', f) # favorites[f]
                   => /\ f.movie_id = req[r].movie_id
                      /\ f.profile_id = req[r].profile_id
                      /\ isAuthenticated(user[r])
                      /\ \E u \in UsersByEmail(user[r].email) : f.user_id = u.id]_vars

C25_OthersFavoriteKept ==
  /\ last.req.route = "removeFavorite"
  /\ last.status = 200
  /\ profiles # {}
  /\ \E f \in DOMAIN favorites :
       /\ f.movie_id = last.req.movie_id
       /\ f.profile_id = last.req.profile_id
       /\ \A u \in UsersByEmail(ResolvedIdentity(Credential(last.req)).email) :
            f.user_id # u.id

\* The caller of the DELETE in slot r has, under a users row of its email,
\* a row of the favorite named in the path in the bag favs.
CallerHasFavorite(r, favs) ==
  \E f \in DOMAIN favs : \E u \in UsersByEmail(user[r].email) :
    /\ f.user_id = u.id
    /\ f.profile_id = req[r].profile_id
    /\ f.movie_id = req[r].movie_id

\* C26: of two DELETE /favorites of one authenticated user for the same
\* existing favorite that are in flight at once, the one whose delete runs
\* first answers 200, the other, answering with nothing received since,
\* answers 404, and no row of the favorite is left; store failures aside.
C26_ConcurrentRemovesSplit ==
  [][\A r \in Slots :
       (pc[r] = "delDelete" /\ pc'[r] = "idle" /\ ~last'.fault)
         => /\ last'.status = IF CallerHasFavorite(r, favorites) THEN 200 ELSE 404
            /\ ~CallerHasFavorite(r, favorites')
            /\ (last.req = req[r] /\ last.status = 200) => last'.status = 404]_vars

C26_BothRemovesMissTheRow ==
  \E r \in Slots :
    /\ pc[r] = "delDelete"
    /\ last.req = req[r]
    /\ last.status = 404
    /\ last.body = "Favorite not found"
    /\ CallerHasFavorite(r, favorites)
    /\ BagCardinality(
         FavoritesOf(userId[r], req[r].profile_id, req[r].movie_id)) = 0


====
